---- MODULE Spec2Model ----
\* A model of the image-enhancer web front end, src/web/src/app/App.tsx:
\* the App component's state, its event handlers, the asynchronous onSubmit
\* handler with the request it sends, the view it renders, and dataUrlToBlob.
\*
\* Conventions
\*   - A JavaScript string is a sequence of one-character strings, so that
\*     parsing, formatting and splitting are computed, not assumed.
\*   - A JavaScript number is <<n>> with n in hundredths (2 is <<200>>,
\*     1.05 is <<105>>), and NaN is << >>.  Every literal and every input of the
\*     model has at most two decimals.
\*   - null / undefined is << >> (None) and a present value x is <<x>>.
EXTENDS Integers, Sequences, FiniteSets, TLC

\* ------------------------------------------------------------------ bounds

\* The number of onChange events of the option fields that a behaviour holds.
MaxEdits == 2

\* ------------------------------------------------------- values and strings

None == << >>
Some(x) == <<x>>

NaN == << >>
Num(n) == <<n>>
IsNaN(x) == x = NaN

DigitChars == <<"0", "1", "2", "3", "4", "5", "6", "7", "8", "9">>
IsDigit(c) == \E i \in 1..10 : DigitChars[i] = c
DigitVal(c) == (CHOOSE i \in 1..10 : DigitChars[i] = c) - 1

Abs(n) == IF n < 0 THEN -n ELSE n

\* The decimal digits of a natural number.
RECURSIVE NatToString(_)
NatToString(n) ==
    IF n < 10 THEN <<DigitChars[n + 1]>>
    ELSE NatToString(n \div 10) \o <<DigitChars[(n % 10) + 1]>>

\* The value of a sequence of digits (0 for the empty sequence).
RECURSIVE DigitsValue(_)
DigitsValue(ds) ==
    IF ds = << >> THEN 0
    ELSE 10 * DigitsValue(SubSeq(ds, 1, Len(ds) - 1)) + DigitVal(ds[Len(ds)])

\* The longest prefix of s made of digits.
RECURSIVE DigitPrefix(_)
DigitPrefix(s) ==
    IF s # << >> /\ IsDigit(s[1]) THEN <<s[1]>> \o DigitPrefix(Tail(s))
    ELSE << >>

Drop(s, k) == SubSeq(s, k + 1, Len(s))

\* JavaScript String(x) of a number: NaN is "NaN", an integer has no decimal
\* point, a fraction keeps its significant decimals only.
NumToStringNoStrip(x) ==
    IF IsNaN(x) THEN <<"N", "a", "N">>
    ELSE LET n == x[1]
             a == Abs(n)
         IN  (IF n < 0 THEN <<"-">> ELSE << >>)
             \o NatToString(a \div 100)
             \o <<".", DigitChars[((a % 100) \div 10) + 1]>>
             \o (IF a % 10 = 0 THEN << >> ELSE <<DigitChars[(a % 10) + 1]>>)

NumToString(x) ==
    IF IsNaN(x) THEN <<"N", "a", "N">>
    ELSE LET n == x[1]
             a == Abs(n)
             f == a % 100
         IN  (IF n < 0 THEN <<"-">> ELSE << >>)
             \o NatToString(a \div 100)
             \o (IF f = 0 THEN << >>
                 ELSE IF f % 10 = 0 THEN <<".", DigitChars[(f \div 10) + 1]>>
                 ELSE <<".", DigitChars[(f \div 10) + 1], DigitChars[(f % 10) + 1]>>)

\* An optional sign: <<negative, rest>>.
SignOf(s) ==
    IF s # << >> /\ s[1] \in {"-", "+"} THEN <<s[1] = "-", Tail(s)>>
    ELSE <<FALSE, s>>

\* JavaScript parseInt(s): an optional sign and the leading digits, NaN when
\* there is no digit; what follows the digits is ignored.
ParseInt(s) ==
    LET sg == SignOf(s)
        ds == DigitPrefix(sg[2])
    IN  IF ds = << >> THEN NaN
        ELSE Num((IF sg[1] THEN -1 ELSE 1) * 100 * DigitsValue(ds))

\* JavaScript parseFloat(s) on strings without an exponent: an optional sign,
\* digits, an optional point and digits; NaN when there is no digit at all.
ParseFloat(s) ==
    LET sg == SignOf(s)
        ip == DigitPrefix(sg[2])
        after == Drop(sg[2], Len(ip))
        fp == IF after # << >> /\ after[1] = "." THEN DigitPrefix(Tail(after))
              ELSE << >>
        f2 == SubSeq(fp \o <<"0", "0">>, 1, 2)
    IN  IF ip = << >> /\ fp = << >> THEN NaN
        ELSE Num((IF sg[1] THEN -1 ELSE 1)
                 * (100 * DigitsValue(ip) + DigitsValue(f2)))

\* JavaScript truthiness of a string or of an optional value: "" and
\* null/undefined are falsy ("" and None are both << >>).
Truthy(s) == s # << >>

\* ------------------------------------------------------------ dataUrlToBlob

\* s.split(c): the pieces of s between the occurrences of the character c.
RECURSIVE Split(_, _)
Split(s, c) ==
    IF \A i \in 1..Len(s) : s[i] # c THEN <<s>>
    ELSE LET k == CHOOSE i \in 1..Len(s) :
                      s[i] = c /\ \A j \in 1..(i - 1) : s[j] # c
         IN  <<SubSeq(s, 1, k - 1)>> \o Split(Drop(s, k), c)

\* Whether the string p occurs in s at position i.
HasAt(s, i, p) ==
    /\ i >= 1
    /\ i + Len(p) - 1 <= Len(s)
    /\ SubSeq(s, i, i + Len(p) - 1) = p

DataColon == <<"d", "a", "t", "a", ":">>
SemiBase64 == <<";", "b", "a", "s", "e", "6", "4">>
OctetStream ==
    <<"a", "p", "p", "l", "i", "c", "a", "t", "i", "o", "n", "/",
      "o", "c", "t", "e", "t", "-", "s", "t", "r", "e", "a", "m">>
Undefined == <<"u", "n", "d", "e", "f", "i", "n", "e", "d">>

\* The characters the regular expression's "." does not match.
LineTerminators == {"\n", "\r"}

\* The matches of /data:(.*);base64/ in header, as <<start, end of capture>>.
MimeMatches(header) ==
    {<<i, j>> \in {a \in 1..Len(header) : HasAt(header, a, DataColon)}
                  \X {b \in 1..Len(header) : HasAt(header, b, SemiBase64)} :
        /\ j >= i + Len(DataColon)
        /\ \A k \in (i + Len(DataColon))..(j - 1) : header[k] \notin LineTerminators}

\* header.match(/data:(.*);base64/): None when nothing matches, else the
\* capture group of the leftmost match, the group taken greedily.
MimeMatchLazy(header) ==
    LET ms == MimeMatches(header)
    IN  IF ms = {} THEN None
        ELSE LET i == CHOOSE a \in {m[1] : m \in ms} :
                          \A b \in {m[1] : m \in ms} : a <= b
                 js == {m[2] : m \in {n \in ms : n[1] = i}}
                 j == CHOOSE a \in js : \A b \in js : a <= b
             IN  Some(SubSeq(header, i + Len(DataColon), j - 1))

MimeMatch(header) ==
    LET ms == MimeMatches(header)
    IN  IF ms = {} THEN None
        ELSE LET i == CHOOSE a \in {m[1] : m \in ms} :
                          \A b \in {m[1] : m \in ms} : a <= b
                 js == {m[2] : m \in {n \in ms : n[1] = i}}
                 j == CHOOSE a \in js : \A b \in js : a >= b
             IN  Some(SubSeq(header, i + Len(DataColon), j - 1))

B64Chars ==
    <<"A", "B", "C", "D", "E", "F", "G", "H", "I", "J", "K", "L", "M",
      "N", "O", "P", "Q", "R", "S", "T", "U", "V", "W", "X", "Y", "Z",
      "a", "b", "c", "d", "e", "f", "g", "h", "i", "j", "k", "l", "m",
      "n", "o", "p", "q", "r", "s", "t", "u", "v", "w", "x", "y", "z",
      "0", "1", "2", "3", "4", "5", "6", "7", "8", "9", "+", "/">>
IsB64(c) == \E i \in 1..64 : B64Chars[i] = c
B64Val(c) == (CHOOSE i \in 1..64 : B64Chars[i] = c) - 1

\* The bytes of base64 characters without padding (Len(s) % 4 # 1).
RECURSIVE B64Bytes(_)
B64Bytes(s) ==
    IF Len(s) < 2 THEN << >>
    ELSE LET a == B64Val(s[1])
             b == B64Val(s[2])
         IN  IF Len(s) = 2 THEN <<4 * a + (b \div 16)>>
             ELSE LET c == B64Val(s[3])
                  IN  IF Len(s) = 3
                      THEN <<4 * a + (b \div 16), 16 * (b % 16) + (c \div 4)>>
                      ELSE <<4 * a + (b \div 16),
                             16 * (b % 16) + (c \div 4),
                             64 * (c % 4) + B64Val(s[4])>>
                           \o B64Bytes(Drop(s, 4))

\* The padding atob removes: one or two "=" at the end of a string whose
\* length is a multiple of four.
StripPadding(s) ==
    IF Len(s) % 4 = 0 /\ Len(s) > 0 /\ s[Len(s)] = "="
    THEN IF s[Len(s) - 1] = "=" THEN SubSeq(s, 1, Len(s) - 2)
         ELSE SubSeq(s, 1, Len(s) - 1)
    ELSE s

\* atob(s): None when it throws InvalidCharacterError, else the binary string
\* as the sequence of its character codes.
Atob(s) ==
    LET t == StripPadding(s)
    IN  IF Len(t) % 4 = 1 \/ \E i \in 1..Len(t) : ~IsB64(t[i]) THEN None
        ELSE Some(B64Bytes(t))

UpperChars ==
    <<"A", "B", "C", "D", "E", "F", "G", "H", "I", "J", "K", "L", "M",
      "N", "O", "P", "Q", "R", "S", "T", "U", "V", "W", "X", "Y", "Z">>
LowerChars ==
    <<"a", "b", "c", "d", "e", "f", "g", "h", "i", "j", "k", "l", "m",
      "n", "o", "p", "q", "r", "s", "t", "u", "v", "w", "x", "y", "z">>
ToLowerChar(c) ==
    IF \E i \in 1..26 : UpperChars[i] = c
    THEN LowerChars[CHOOSE i \in 1..26 : UpperChars[i] = c]
    ELSE c
ToLower(s) == [i \in 1..Len(s) |-> ToLowerChar(s[i])]

\* The type of new Blob(parts, {type}): the empty string when type holds a
\* character outside U+0020..U+007E, else type in ASCII lower case.
BlobType(type) ==
    IF \E i \in 1..Len(type) : type[i] \in LineTerminators THEN << >>
    ELSE ToLower(type)

\* for (let i = 0; i < bytes.length; i++) buf[i] = bytes.charCodeAt(i)
RECURSIVE CopyBytes(_, _)
CopyBytes(bytes, i) ==
    IF i < Len(bytes) THEN <<bytes[i + 1] % 256>> \o CopyBytes(bytes, i + 1)
    ELSE << >>

\* dataUrlToBlob(dataUrl): None when it throws, else the Blob.
dataUrlToBlob(url) ==
    LET parts == Split(url, ",")
        header == parts[1]
        base64 == IF Len(parts) >= 2 THEN parts[2] ELSE Undefined
        mimeMatch == MimeMatch(header)
        mime == IF mimeMatch # None THEN mimeMatch[1] ELSE OctetStream
        bytes == Atob(base64)
    IN  IF bytes = None THEN None
        ELSE Some([type |-> BlobType(mime), bytes |-> CopyBytes(bytes[1], 0)])

\* ---------------------------------------------------------- the App state

VARIABLES
    file,           \* useState<File | null>: None or Some(file)
    busy,           \* useState(false)
    error,          \* useState<string | null>: None or Some(message)
    scale,          \* useState<number>(2)
    width,          \* useState<string>('')
    height,         \* useState<string>('')
    denoiseLuma,    \* useState(5)
    denoiseColor,   \* useState(5)
    claheClip,      \* useState(2.0)
    sharpenAmount,  \* useState(0.6)
    sharpenSigma,   \* useState(1.2)
    saturation,     \* useState(1.05)
    result,         \* useState<{png?, jpg?, webp?, apng?} | null>
    inflight,       \* the pending awaits of onSubmit, each with its request
    edits,          \* how many option-field onChange events have happened
    dataUrl,        \* the argument of a call of dataUrlToBlob
    blobCall,       \* "idle", "called", "returned" or "thrown"
    blob,           \* the Blob that call returned
    srcMime,        \* the media type dataUrl was written with
    srcBytes,       \* the bytes dataUrl was written with
    srcShape        \* how the header of dataUrl was written

options ==
    <<scale, width, height, denoiseLuma, denoiseColor, claheClip,
      sharpenAmount, sharpenSigma, saturation>>
appVars == <<file, busy, error, options, result, inflight, edits>>
blobVars == <<dataUrl, blobCall, blob, srcMime, srcBytes, srcShape>>
vars == <<appVars, blobVars>>

API_BASE == "http://localhost:8000"

\* The files the user can pick.
Files == {<<"File", "a.png">>, <<"File", "b.jpg">>}

BlobIdle ==
    /\ dataUrl = << >>
    /\ blobCall = "idle"
    /\ blob = None
    /\ srcMime = << >>
    /\ srcBytes = << >>
    /\ srcShape = "none"

AppInit ==
    /\ file = None
    /\ busy = FALSE
    /\ error = None
    /\ scale = Num(200)
    /\ width = << >>
    /\ height = << >>
    /\ denoiseLuma = Num(500)
    /\ denoiseColor = Num(500)
    /\ claheClip = Num(200)
    /\ sharpenAmount = Num(60)
    /\ sharpenSigma = Num(120)
    /\ saturation = Num(105)
    /\ result = None
    /\ inflight = << >>
    /\ edits = 0

Init == AppInit /\ BlobIdle

\* const canSubmit = !!file && !busy
canSubmitIgnoringBusy == Truthy(file)

canSubmit == Truthy(file) /\ ~busy

\* ------------------------------------------------- the inputs of the form

\* onChange of the file input: the picked file, or null when none is picked.
SelectFile ==
    /\ \E f \in {None} \cup {Some(x) : x \in Files} : file' = f
    /\ UNCHANGED <<busy, error, options, result, inflight, edits, blobVars>>

\* What e.target.value of each number input is drawn from.
ScaleInputs == {<< >>, <<"0">>, <<"1", ".", "5">>}
WidthInputs == {<< >>, <<"8">>, <<"0">>}
HeightInputs == {<< >>, <<"2", ".", "0">>}
DenoiseLumaInputs == {<<"7", ".", "5">>, <<"2", "1">>}
DenoiseColorInputs == {<< >>, <<"2", "0">>}
ClaheClipInputs == {<< >>, <<"5", ".", "5">>}
SharpenAmountInputs == {<< >>, <<"2">>}
SharpenSigmaInputs == {<< >>, <<"0", ".", "1">>}
SaturationInputs == {<< >>, <<"0", ".", "9", "5">>}

Edited ==
    /\ edits < MaxEdits
    /\ edits' = edits + 1
    /\ UNCHANGED <<file, busy, error, result, inflight, blobVars>>

SetScale ==
    /\ ~(Truthy(width) \/ Truthy(height))      \* disabled={!!(width || height)}
    /\ \E v \in ScaleInputs : scale' = ParseFloat(v)
    /\ Edited
    /\ UNCHANGED <<width, height, denoiseLuma, denoiseColor, claheClip,
                   sharpenAmount, sharpenSigma, saturation>>

SetWidth ==
    /\ \E v \in WidthInputs : width' = v
    /\ Edited
    /\ UNCHANGED <<scale, height, denoiseLuma, denoiseColor, claheClip,
                   sharpenAmount, sharpenSigma, saturation>>

SetHeight ==
    /\ \E v \in HeightInputs : height' = v
    /\ Edited
    /\ UNCHANGED <<scale, width, denoiseLuma, denoiseColor, claheClip,
                   sharpenAmount, sharpenSigma, saturation>>

SetDenoiseLuma ==
    /\ \E v \in DenoiseLumaInputs : denoiseLuma' = ParseInt(v)
    /\ Edited
    /\ UNCHANGED <<scale, width, height, denoiseColor, claheClip,
                   sharpenAmount, sharpenSigma, saturation>>

SetDenoiseColor ==
    /\ \E v \in DenoiseColorInputs : denoiseColor' = ParseInt(v)
    /\ Edited
    /\ UNCHANGED <<scale, width, height, denoiseLuma, claheClip,
                   sharpenAmount, sharpenSigma, saturation>>

SetClaheClip ==
    /\ \E v \in ClaheClipInputs : claheClip' = ParseFloat(v)
    /\ Edited
    /\ UNCHANGED <<scale, width, height, denoiseLuma, denoiseColor,
                   sharpenAmount, sharpenSigma, saturation>>

SetSharpenAmount ==
    /\ \E v \in SharpenAmountInputs : sharpenAmount' = ParseFloat(v)
    /\ Edited
    /\ UNCHANGED <<scale, width, height, denoiseLuma, denoiseColor,
                   claheClip, sharpenSigma, saturation>>

SetSharpenSigma ==
    /\ \E v \in SharpenSigmaInputs : sharpenSigma' = ParseFloat(v)
    /\ Edited
    /\ UNCHANGED <<scale, width, height, denoiseLuma, denoiseColor,
                   claheClip, sharpenAmount, saturation>>

SetSaturation ==
    /\ \E v \in SaturationInputs : saturation' = ParseFloat(v)
    /\ Edited
    /\ UNCHANGED <<scale, width, height, denoiseLuma, denoiseColor,
                   claheClip, sharpenAmount, sharpenSigma>>

\* ------------------------------------- the browser's validation of the form

\* The value a number input holds when React sets it to s: a string that is
\* no number ("NaN") is replaced by the empty string.
InputValue(s) == IF IsNaN(ParseFloat(s)) THEN << >> ELSE s

\* Whether a number input with value s satisfies its min, max and step
\* attributes (lo and hi are None when the attribute is absent; hundredths).
InputValid(s, lo, hi, step) ==
    LET v == InputValue(s)
        x == ParseFloat(v)[1]
        base == IF lo = None THEN 0 ELSE lo[1]
    IN  IF v = << >> THEN TRUE
        ELSE /\ (lo # None => x >= lo[1])
             /\ (hi # None => x <= hi[1])
             /\ (x - base) % step = 0

\* The submit button submits the form only when every input is valid.
FormValid ==
    /\ InputValid(NumToString(scale), None, None, 10)
    /\ InputValid(width, Some(100), None, 100)
    /\ InputValid(height, Some(100), None, 100)
    /\ InputValid(NumToString(denoiseLuma), Some(0), Some(2000), 100)
    /\ InputValid(NumToString(denoiseColor), Some(0), Some(2000), 100)
    /\ InputValid(NumToString(claheClip), Some(50), Some(500), 10)
    /\ InputValid(NumToString(sharpenAmount), Some(0), Some(200), 10)
    /\ InputValid(NumToString(sharpenSigma), Some(10), Some(300), 10)
    /\ InputValid(NumToString(saturation), Some(0), Some(200), 1)

\* ----------------------------------------------------------------- onSubmit

\* if (width || height) {...} else {...}, with the scale always appended.
SizeFieldsAlwaysScale ==
    (IF Truthy(width) THEN <<<<"width", NumToString(ParseInt(width))>>>> ELSE << >>)
    \o (IF Truthy(height) THEN <<<<"height", NumToString(ParseInt(height))>>>> ELSE << >>)
    \o <<<<"scale", NumToString(scale)>>>>

\* if (width || height) { width and height, each if set } else { scale }
SizeFields ==
    IF Truthy(width) \/ Truthy(height)
    THEN (IF Truthy(width)
          THEN <<<<"width", NumToString(ParseInt(width))>>>> ELSE << >>)
         \o (IF Truthy(height)
             THEN <<<<"height", NumToString(ParseInt(height))>>>> ELSE << >>)
    ELSE <<<<"scale", NumToString(scale)>>>>

\* The six appends of the enhancement options, the last one forgotten.
OptionFieldsNoSaturation ==
    << <<"denoise_luma", NumToString(denoiseLuma)>>,
       <<"denoise_color", NumToString(denoiseColor)>>,
       <<"clahe_clip", NumToString(claheClip)>>,
       <<"sharpen_amount", NumToString(sharpenAmount)>>,
       <<"sharpen_sigma", NumToString(sharpenSigma)>> >>

\* form.append('denoise_luma', String(denoiseLuma)) ... 'saturation'
OptionFields ==
    << <<"denoise_luma", NumToString(denoiseLuma)>>,
       <<"denoise_color", NumToString(denoiseColor)>>,
       <<"clahe_clip", NumToString(claheClip)>>,
       <<"sharpen_amount", NumToString(sharpenAmount)>>,
       <<"sharpen_sigma", NumToString(sharpenSigma)>>,
       <<"saturation", NumToString(saturation)>> >>

\* The FormData onSubmit builds (file is not null here).
EnhanceForm == <<<<"file", file[1]>>>> \o SizeFields \o OptionFields

\* fetch(`${API_BASE}/api/enhance`, { method: 'POST', body: form })
EnhanceRequest ==
    [phase |-> "fetch",
     url |-> API_BASE \o "/api/enhance",
     method |-> "POST",
     body |-> EnhanceForm]

\* onSubmit without the two resets before the request.
onSubmitNoReset ==
    IF ~Truthy(file) THEN UNCHANGED vars
    ELSE /\ busy' = TRUE
         /\ inflight' = Append(inflight, EnhanceRequest)
         /\ UNCHANGED <<file, error, result, options, edits, blobVars>>

\* onSubmit up to its first await: the early return when no file is picked,
\* the three state updates, the form and the fetch.
onSubmit ==
    IF ~Truthy(file) THEN UNCHANGED vars
    ELSE /\ busy' = TRUE
         /\ error' = None
         /\ result' = None
         /\ inflight' = Append(inflight, EnhanceRequest)
         /\ UNCHANGED <<file, options, edits, blobVars>>

\* The submit event of the form: the submit button is enabled and every input
\* is valid; then onSubmit runs.
Submit ==
    /\ canSubmit
    /\ FormValid
    /\ onSubmit

\* ------------------------------------------------- the rest of onSubmit

ApiErrorPrefix ==
    <<"A", "P", "I", " ", "e", "r", "r", "o", "r", ":", " ">>
UnknownError ==
    <<"U", "n", "k", "n", "o", "w", "n", " ", "e", "r", "r", "o", "r">>
FailedToFetch ==
    <<"F", "a", "i", "l", "e", "d", " ", "t", "o", " ", "f", "e", "t", "c", "h">>
JsonSyntaxMessage ==
    <<"U", "n", "e", "x", "p", "e", "c", "t", "e", "d", " ", "e", "n", "d", " ",
      "o", "f", " ", "J", "S", "O", "N", " ", "i", "n", "p", "u", "t">>
PngUrl ==
    <<"d", "a", "t", "a", ":", "i", "m", "a", "g", "e", "/", "p", "n", "g",
      ";", "b", "a", "s", "e", "6", "4", ",", "i", "V", "A", "=">>
JpgUrl ==
    <<"d", "a", "t", "a", ":", "i", "m", "a", "g", "e", "/", "j", "p", "e", "g",
      ";", "b", "a", "s", "e", "6", "4", ",", "/", "9", "g", "=">>
WebpUrl ==
    <<"d", "a", "t", "a", ":", "i", "m", "a", "g", "e", "/", "w", "e", "b", "p",
      ";", "b", "a", "s", "e", "6", "4", ",", "U", "k", "l", "G">>
ApngUrl ==
    <<"d", "a", "t", "a", ":", "i", "m", "a", "g", "e", "/", "a", "p", "n", "g",
      ";", "b", "a", "s", "e", "6", "4", ",", "i", "V", "B", "O">>

\* What a rejected promise is rejected with: a value without a message
\* (None), or an error with its message.
FetchRejections == {Some(FailedToFetch), Some(<< >>), None}
JsonRejections == {Some(JsonSyntaxMessage)}

\* The statuses the service answers with (in whole numbers).
Statuses == {200, 422, 500}
\* res.ok
Ok(status) == 200 <= status /\ status <= 299

Keys == {"png", "jpg", "webp", "apng"}
UrlOf(k) ==
    CASE k = "png" -> PngUrl
      [] k = "jpg" -> JpgUrl
      [] k = "webp" -> WebpUrl
      [] k = "apng" -> ApngUrl

\* The JSON objects the service answers with: each key absent or a data URL,
\* and at most one of the keys present the empty string.
ResultObjects ==
    {[k \in S |-> IF k \in E THEN << >> ELSE UrlOf(k)] :
        <<S, E>> \in {<<A, B>> \in (SUBSET Keys) \X (SUBSET Keys) :
                          B \subseteq A /\ Cardinality(B) <= 1}}

Remove(seq, i) == SubSeq(seq, 1, i - 1) \o SubSeq(seq, i + 1, Len(seq))

\* The catch block with setBusy(false) left in the try block only.
CatchNoFinally(i, err) ==
    /\ error' = Some(IF err # None /\ Truthy(err[1]) THEN err[1] ELSE UnknownError)
    /\ inflight' = Remove(inflight, i)
    /\ UNCHANGED <<file, busy, options, result, edits, blobVars>>

\* The catch block without the 'Unknown error' fallback.
CatchFinallyNoFallback(i, err) ==
    /\ error' = Some(IF err # None THEN err[1] ELSE << >>)
    /\ busy' = FALSE
    /\ inflight' = Remove(inflight, i)
    /\ UNCHANGED <<file, options, result, edits, blobVars>>

\* catch (err) { setError(err?.message || 'Unknown error') }
\* finally { setBusy(false) }
CatchFinally(i, err) ==
    /\ error' = Some(IF err # None /\ Truthy(err[1]) THEN err[1] ELSE UnknownError)
    /\ busy' = FALSE
    /\ inflight' = Remove(inflight, i)
    /\ UNCHANGED <<file, options, result, edits, blobVars>>

\* await fetch(...) rejects.
FetchRejects ==
    \E i \in 1..Len(inflight) :
        /\ inflight[i].phase = "fetch"
        /\ \E err \in FetchRejections : CatchFinally(i, err)

\* await fetch(...) resolves with a status that is not OK:
\* throw new Error(`API error: ${res.status}`)
FetchNotOk ==
    \E i \in 1..Len(inflight) :
        /\ inflight[i].phase = "fetch"
        /\ \E status \in Statuses :
            /\ ~Ok(status)
            /\ CatchFinally(i, Some(ApiErrorPrefix \o NumToString(Num(100 * status))))

\* await fetch(...) resolves with an OK status: res.json() is awaited.
FetchOk ==
    \E i \in 1..Len(inflight) :
        /\ inflight[i].phase = "fetch"
        /\ \E status \in Statuses : Ok(status)
        /\ inflight' = [inflight EXCEPT ![i].phase = "json"]
        /\ UNCHANGED <<file, busy, error, options, result, edits, blobVars>>

\* await res.json() rejects: the body is no JSON.
JsonRejects ==
    \E i \in 1..Len(inflight) :
        /\ inflight[i].phase = "json"
        /\ \E err \in JsonRejections : CatchFinally(i, err)

\* await res.json() resolves: setResult(data), and finally setBusy(false).
JsonResolves ==
    \E i \in 1..Len(inflight) :
        /\ inflight[i].phase = "json"
        /\ \E data \in ResultObjects : result' = Some(data)
        /\ busy' = FALSE
        /\ inflight' = Remove(inflight, i)
        /\ UNCHANGED <<file, error, options, edits, blobVars>>

\* ------------------------------------------------------------------ the view

Get(obj, k) == IF k \in DOMAIN obj THEN obj[k] ELSE None

LabelOf(k) ==
    CASE k = "png" -> "PNG"
      [] k = "jpg" -> "JPG"
      [] k = "webp" -> "WEBP"
      [] k = "apng" -> "APNG"

\* URL.createObjectURL(blob), blob being dataUrlToBlob(dataUrl): the object
\* URL stands for the Blob of that data URL.
ObjectUrl(url) == [blobOf |-> url]
BlobAt(href) == dataUrlToBlob(href.blobOf)

\* DownloadButton: null without a data URL, else the link to the Blob.
DownloadButton(label, url, filename) ==
    IF ~Truthy(url) THEN None
    ELSE Some([label |-> label, download |-> filename, href |-> ObjectUrl(url)])

\* The result card with the download buttons put under the preview.
ResultCardUnderPreview ==
    IF result = None THEN None
    ELSE LET png == Get(result[1], "png")
         IN  Some([preview |-> IF Truthy(png) THEN Some(png) ELSE None,
                   buttons |-> [k \in Keys |->
                       IF Truthy(png)
                       THEN DownloadButton(LabelOf(k), Get(result[1], k),
                                           "image_enhanced." \o k)
                       ELSE None]])

\* {result && (<div className="card"> ... </div>)}
ResultCard ==
    IF result = None THEN None
    ELSE LET png == Get(result[1], "png")
         IN  Some([preview |-> IF Truthy(png) THEN Some(png) ELSE None,
                   buttons |-> [k \in Keys |->
                       DownloadButton(LabelOf(k), Get(result[1], k),
                                      "image_enhanced." \o k)]])

\* {error && <p style={{color: 'red'}}>{error}</p>}
ErrorLine == IF error # None /\ Truthy(error[1]) THEN Some(error[1]) ELSE None

\* <button type="submit" disabled={!canSubmit}>
SubmitDisabled == ~canSubmit

\* ------------------------------------------------------- the specifications

Next ==
    \/ SelectFile
    \/ SetScale
    \/ SetWidth
    \/ SetHeight
    \/ SetDenoiseLuma
    \/ SetDenoiseColor
    \/ SetClaheClip
    \/ SetSharpenAmount
    \/ SetSharpenSigma
    \/ SetSaturation
    \/ Submit
    \/ FetchRejects
    \/ FetchNotOk
    \/ FetchOk
    \/ JsonRejects
    \/ JsonResolves

Spec == Init /\ [][Next]_vars

\* The fetch settles and the body is read: the browser ends every request and
\* every read of a body, with an answer or with an error.
FairSpec ==
    /\ Spec
    /\ WF_vars(FetchRejects \/ FetchNotOk \/ FetchOk)
    /\ WF_vars(JsonRejects \/ JsonResolves)

\* --------------------------------------------- dataUrlToBlob on its own

\* The longest body, in bytes, a data URL is written with.
MaxBytes == 2

ByteValues == {0, 77, 255}
ByteSeqs == UNION {[1..n -> ByteValues] : n \in 0..MaxBytes}

\* The base64 text of a sequence of bytes, as the service writes it.
RECURSIVE Btoa(_)
Btoa(bytes) ==
    IF bytes = << >> THEN << >>
    ELSE LET a == bytes[1]
             b == IF Len(bytes) >= 2 THEN bytes[2] ELSE 0
             c == IF Len(bytes) >= 3 THEN bytes[3] ELSE 0
             c1 == B64Chars[(a \div 4) + 1]
             c2 == B64Chars[(16 * (a % 4) + (b \div 16)) + 1]
             c3 == B64Chars[(4 * (b % 16) + (c \div 64)) + 1]
             c4 == B64Chars[(c % 64) + 1]
         IN  IF Len(bytes) = 1 THEN <<c1, c2, "=", "=">>
             ELSE IF Len(bytes) = 2 THEN <<c1, c2, c3, "=">>
             ELSE <<c1, c2, c3, c4>> \o Btoa(Drop(bytes, 3))

\* The media types the data URLs are written with.
Mimes ==
    { <<"i", "m", "a", "g", "e", "/", "p", "n", "g">>,
      <<"I", "m", "a", "g", "e", "/", "P", "n", "g">>,
      << >>,
      <<"a", ";", "b", "a", "s", "e", "6", "4", ";", "q">> }

\* How a URL is written: as data:<mime>;base64,<body>, without "data:",
\* without ";base64", or without the comma and the body.
Shapes == {"dataurl", "nodata", "nobase64", "nocomma"}

WriteUrl(shape, mime, bytes) ==
    CASE shape = "dataurl" -> DataColon \o mime \o SemiBase64 \o <<",">> \o Btoa(bytes)
      [] shape = "nodata" -> mime \o SemiBase64 \o <<",">> \o Btoa(bytes)
      [] shape = "nobase64" -> DataColon \o mime \o <<",">> \o Btoa(bytes)
      [] shape = "nocomma" -> DataColon \o mime \o SemiBase64

BlobInit ==
    /\ AppInit
    /\ srcShape \in Shapes
    /\ srcMime \in Mimes
    /\ srcBytes \in ByteSeqs
    /\ dataUrl = WriteUrl(srcShape, srcMime, srcBytes)
    /\ blobCall = "called"
    /\ blob = None

\* dataUrlToBlob(dataUrl) returns.
BlobReturns ==
    /\ blobCall = "called"
    /\ dataUrlToBlob(dataUrl) # None
    /\ blob' = dataUrlToBlob(dataUrl)
    /\ blobCall' = "returned"
    /\ UNCHANGED <<appVars, dataUrl, srcMime, srcBytes, srcShape>>

\* dataUrlToBlob(dataUrl) throws (atob does).
BlobThrows ==
    /\ blobCall = "called"
    /\ dataUrlToBlob(dataUrl) = None
    /\ blobCall' = "thrown"
    /\ UNCHANGED <<appVars, dataUrl, blob, srcMime, srcBytes, srcShape>>

BlobNext == BlobReturns \/ BlobThrows

BlobSpec == BlobInit /\ [][BlobNext]_vars

\* ------------------------------------------------------------- the claims

\* What the claims read of a form and of a step.
HasField(form, name) == \E i \in 1..Len(form) : form[i][1] = name
CountField(form, name) == Cardinality({i \in 1..Len(form) : form[i][1] = name})
FieldValue(form, name) == form[CHOOSE i \in 1..Len(form) : form[i][1] = name][2]
FieldNames(form) == {form[i][1] : i \in 1..Len(form)}
\* A step that starts a fetch, and the request it sends.
Sends == Len(inflight') = Len(inflight) + 1
Sent == inflight'[Len(inflight')]
OptionNames ==
    {"denoise_luma", "denoise_color", "clahe_clip", "sharpen_amount",
     "sharpen_sigma", "saturation"}

\* C1: a request holds a `scale` field exactly when both the width and the
\* height input are empty as it is built; with either one set it holds no
\* `scale` field, whatever the scale state is.
C1_ScaleIffNoTarget ==
    [][Sends => (HasField(Sent.body, "scale") <=> (width = << >> /\ height = << >>))]_vars

\* C1 witness: a request built with the width set and the scale edited away
\* from its default is in flight, and holds `width` and no `scale`.
C1_Witness ==
    /\ Len(inflight) = 1
    /\ HasField(inflight[1].body, "width")
    /\ ~HasField(inflight[1].body, "scale")
    /\ scale = Num(150)
    /\ width = <<"8">>

\* Whether the string sent for an option is a number inside the documented
\* range of the option (hundredths).
InDocumentedRange(name, value) ==
    LET x == ParseFloat(value)
    IN  /\ ~IsNaN(x)
        /\ NumToString(x) = value
        /\ CASE name = "scale" -> x[1] > 0
             [] name \in {"width", "height"} -> x[1] >= 100 /\ x[1] % 100 = 0
             [] name \in {"denoise_luma", "denoise_color"} ->
                    x[1] >= 0 /\ x[1] <= 2000 /\ x[1] % 100 = 0
             [] name = "clahe_clip" -> x[1] >= 50 /\ x[1] <= 500
             [] name = "sharpen_amount" -> x[1] >= 0 /\ x[1] <= 200
             [] name = "sharpen_sigma" -> x[1] >= 10 /\ x[1] <= 300
             [] name = "saturation" -> x[1] >= 0 /\ x[1] <= 200

\* C2: every numeric option value of every request is a string-encoded number
\* inside the documented range of its option, after any edits of the fields.
C2_ValuesInRange ==
    \A r \in 1..Len(inflight) :
        \A i \in 1..Len(inflight[r].body) :
            inflight[r].body[i][1] # "file" =>
                InDocumentedRange(inflight[r].body[i][1], inflight[r].body[i][2])

\* The shape of a request: a POST to <API base>/api/enhance whose form holds
\* one file, each of the six options once, and besides them only `scale` or a
\* non-empty subset of {`width`, `height`}.
WellFormedRequest(r) ==
    /\ r.url = "http://localhost:8000/api/enhance"
    /\ r.method = "POST"
    /\ CountField(r.body, "file") = 1
    /\ FieldValue(r.body, "file") \in Files
    /\ \A n \in OptionNames : CountField(r.body, n) = 1
    /\ \A n \in {"scale", "width", "height"} : CountField(r.body, n) <= 1
    /\ FieldNames(r.body) \ (OptionNames \cup {"file"})
           \in {{"scale"}, {"width"}, {"height"}, {"width", "height"}}

\* C3: every request is a well-formed POST that holds the file selected as it
\* is sent, and with no file selected onSubmit sends nothing and changes no
\* state.
C3_RequestShape ==
    /\ [](\A r \in 1..Len(inflight) : WellFormedRequest(inflight[r]))
    /\ [][Sends => (file # None /\ FieldValue(Sent.body, "file") = file[1])]_vars
    /\ [](file = None => ~ENABLED (onSubmit /\ vars' # vars))

\* C3 witness: a request with both `width` and `height` is in flight, and the
\* file has been deselected since.
C3_Witness ==
    /\ Len(inflight) = 1
    /\ HasField(inflight[1].body, "width")
    /\ HasField(inflight[1].body, "height")
    /\ FieldValue(inflight[1].body, "file") = <<"File", "b.jpg">>
    /\ file = None

Rendered(k) == ResultCard[1].buttons[k] # None
Present(k) == k \in DOMAIN result[1] /\ result[1][k] # << >>

C5_FailureShown ==
    [][(FetchRejects \/ FetchNotOk \/ JsonRejects) =>
        /\ error' # None
        /\ Truthy(error'[1])
        /\ ErrorLine' = error'
        /\ result' = None
        /\ ResultCard' = None
        /\ FetchNotOk =>
               error'[1] \in {ApiErrorPrefix \o <<"4", "2", "2">>,
                               ApiErrorPrefix \o <<"5", "0", "0">>}
        /\ FetchRejects => error'[1] \in {FailedToFetch, UnknownError}
        /\ JsonRejects => error'[1] = JsonSyntaxMessage]_vars

\* C5 witness: a request answered with status 500 left its message and no
\* result.
C5_Witness ==
    /\ error = Some(ApiErrorPrefix \o <<"5", "0", "0">>)
    /\ result = None
    /\ ~busy
    /\ inflight = << >>

\* C6 as stated: the Blob of data:<mime>;base64,<body> has exactly the type
\* <mime> and the bytes <body> encodes.
C6_TypeExactlyMime ==
    (blobCall = "returned" /\ srcShape = "dataurl") =>
        /\ blob[1].type = srcMime
        /\ blob[1].bytes = srcBytes

Contains(str, p) == \E i \in 1..Len(str) : HasAt(str, i, p)

\* C6 amended: the call on data:<mime>;base64,<body> does not throw, and its
\* Blob has the type <mime> in ASCII lower case and the bytes <body> encodes,
\* in order and in number; a header without "data:" or without ";base64" gives
\* the type application/octet-stream.
C6_TypeLowerCaseMime ==
    /\ srcShape = "dataurl" => blobCall # "thrown"
    /\ (blobCall = "returned" /\ srcShape = "dataurl") =>
           /\ blob[1].type = ToLower(srcMime)
           /\ blob[1].bytes = srcBytes
    /\ (/\ blobCall = "returned"
        /\ \/ srcShape = "nodata"
           \/ srcShape = "nobase64" /\ ~Contains(srcMime, SemiBase64)) =>
           blob[1].type = OctetStream

\* C6 witness: a data URL of two bytes whose media type itself holds
\* ";base64" has been converted.
C6_Witness ==
    /\ blobCall = "returned"
    /\ srcShape = "dataurl"
    /\ srcMime = <<"a", ";", "b", "a", "s", "e", "6", "4", ";", "q">>
    /\ srcBytes = <<255, 77>>
    /\ blob[1].bytes = <<255, 77>>

\* C7: a submit before any edit of an option field sends the defaults:
\* scale=2 and no width or height, denoise_luma=5, denoise_color=5,
\* clahe_clip=2, sharpen_amount=0.6, sharpen_sigma=1.2, saturation=1.05.
C7_DefaultsSent ==
    [][(edits = 0 /\ Sends) =>
        Sent.body = << <<"file", file[1]>>,
                       <<"scale", <<"2">>>>,
                       <<"denoise_luma", <<"5">>>>,
                       <<"denoise_color", <<"5">>>>,
                       <<"clahe_clip", <<"2">>>>,
                       <<"sharpen_amount", <<"0", ".", "6">>>>,
                       <<"sharpen_sigma", <<"1", ".", "2">>>>,
                       <<"saturation", <<"1", ".", "0", "5">>>> >>]_vars

\* C7 witness: a request sent before any edit is in flight.
C7_Witness ==
    /\ edits = 0
    /\ Len(inflight) = 1
    /\ inflight[1].phase = "fetch"
    /\ FieldValue(inflight[1].body, "clahe_clip") = <<"2">>

\* C8: at most one request is in flight, and while one is, `busy` is set and
\* the submit control is disabled.
C8_OneInFlight ==
    /\ Len(inflight) <= 1
    /\ inflight # << >> => (busy /\ ~canSubmit /\ SubmitDisabled)

\* C8 witness: with a file selected, a request is awaiting its body and the
\* submit control is disabled.
C8_Witness ==
    /\ Len(inflight) = 1
    /\ inflight[1].phase = "json"
    /\ file # None
    /\ SubmitDisabled

\* C9: `busy` is set exactly while a request is in flight, every settling of a
\* request clears it, and once set it is eventually cleared.
C9_BusyClears ==
    /\ [](busy <=> inflight # << >>)
    /\ [][(FetchRejects \/ FetchNotOk \/ JsonRejects \/ JsonResolves) => ~busy']_vars
    /\ busy ~> ~busy

\* C9 witness: after a rejected fetch `busy` is clear and, a file being
\* selected, the submit control is enabled again.
C9_Witness ==
    /\ error = Some(FailedToFetch)
    /\ ~busy
    /\ canSubmit
    /\ ~SubmitDisabled

\* C10: `error` and `result` are never both set, neither is set while a
\* request is in flight, and the error line and the result card are never
\* shown together.
C10_ErrorXorResult ==
    /\ ~(error # None /\ result # None)
    /\ inflight # << >> => (error = None /\ result = None)
    /\ ~(ErrorLine # None /\ ResultCard # None)

\* C10 witness: a failure without a message is shown, with no result.
C10_Witness ==
    /\ error = Some(UnknownError)
    /\ result = None
    /\ ErrorLine = Some(UnknownError)
    /\ ResultCard = None

====
